---- MODULE Spec2Model ----
(***************************************************************************)
(* examples/api_widgets_demo.ipynb: the kernel state of the notebook       *)
(* (SRwidgets, m.regions, asset, release, gdf, parms, version), the files  *)
(* written by io.to_file, and one action per code cell and per action of   *)
(* the user.  The request cell is a loop around a blocking remote call and *)
(* is modelled one iteration per step; the kernel serves nothing else      *)
(* while it runs.  The other cells run in one step each.                   *)
(*                                                                         *)
(* The session starts after the import, widget and map cells have run      *)
(* once: SRwidgets and m are bound, no polygon is drawn, and the names     *)
(* asset, release, gdf, parms and version are not bound yet.  The user may *)
(* then run any cell at any time, change the widgets and draw polygons.    *)
(* Of the widgets, length and the file and format selection are changed;   *)
(* the others keep their initial values.                                   *)
(***************************************************************************)
EXTENDS Integers, Sequences, FiniteSets, TLC

VARIABLES
    SRwidgets,   \* ipysliderule.widgets(): the value of every widget
    regions,     \* m.regions: the polygons drawn on the leaflet map
    asset,       \* kernel variable asset
    release,     \* kernel variable release
    gdf,         \* kernel variable gdf
    parms,       \* kernel variable parms
    version,     \* kernel variable version
    files,       \* the files on disk, by name
    plotted,     \* history: the two plots have been rendered
    calls,       \* history: the calls into sliderule made by the cell that runs or has just ended
    runRegions,  \* history: the regions submitted by the latest run of the request cell
    received,    \* history: a result table has been received from the endpoint
    lastSaved,   \* history: per file, the table and format handed to the io.to_file that wrote it
    last,        \* history: the latest cell and its outcome
    track        \* which of the histories runRegions ("run") and received, plotted ("flow") are kept

vars == <<SRwidgets, regions, asset, release, gdf, parms, version, files, plotted,
          calls, runRegions, received, lastSaved, last, track>>

----------------------------------------------------------------------------
(* Bounds and input sets *)

MaxRegions == 2

Polys == {"p1", "p2"}
FileNames == {"out"}
Formats == {"hdf", "netcdf"}
Lengths == {40, 20}

(* An unbound name of the kernel is None; a bound one is Some(value). *)
None == <<>>
Some(x) == <<x>>
Val(o) == o[1]

----------------------------------------------------------------------------
(* The collaborators *)

(* ipysliderule.widgets(): the widgets at their initial values *)
DefaultWidgets ==
    [asset |-> "nsidc-s3", release |-> "004", surface_type |-> 0,
     length |-> 40, step |-> 20, confidence |-> 4, land_class |-> <<>>,
     iteration |-> 1, spread |-> 20, count |-> 10, window |-> 3,
     sigma |-> 5, projection |-> "Global", file |-> "out", format |-> "hdf"]

(* icesat2.__emptyframe() *)
EmptyFrame == <<>>

(* A row of the table icesat2.atl06p returns for a polygon *)
Row(poly) == [geometry |-> poly, h_mean |-> 1]

(* What icesat2.atl06p may return for a parameter record *)
Responses(p) == {EmptyFrame, <<Row(p.poly)>>}

(* icesat2.get_version() *)
GetVersion == [icesat2 |-> [version |-> "v1.0.7", commit |-> "abc123"]]

RECURSIVE Column(_, _)
Column(table, name) ==
    IF table = <<>> THEN <<>>
    ELSE <<Head(table)[name]>> \o Column(Tail(table), name)

(* io.to_file: the table is written column by column in the format asked for *)
ToFile(table, format) ==
    [format |-> format,
     columns |-> [geometry |-> Column(table, "geometry"),
                  h_mean |-> Column(table, "h_mean")]]

(* io.from_file: the table is rebuilt row by row from the columns *)
FromFile(f) ==
    [i \in 1..Len(f.columns.geometry) |->
        [geometry |-> f.columns.geometry[i], h_mean |-> f.columns.h_mean[i]]]

(* io.from_file succeeds on a file written in the format asked for *)
Readable(name, format) ==
    /\ files[name] # None
    /\ Val(files[name]).format = format

(* ax1.plot / ax2.scatter of gdf and one ax2.plot per region *)
Figures(table, rgns) == [fn |-> "plot", points |-> table, outlines |-> rgns]

(* the call records of the history *)
Atl06pCall(p, a, v, result) ==
    [fn |-> "atl06p", parms |-> p, asset |-> a, version |-> v, result |-> result]
ToFileCall(table, file, format, parameters, rgns) ==
    [fn |-> "to_file", gdf |-> table, file |-> file, format |-> format,
     parameters |-> parameters, regions |-> rgns]

----------------------------------------------------------------------------
(* A history is written only when it is kept *)
Keep(h, old, new) == IF h \in track THEN new ELSE old

(* The kernel runs one cell at a time *)
Idle == last # "request_running"

Fresh ==
    /\ SRwidgets = DefaultWidgets
    /\ regions = <<>>
    /\ asset = None
    /\ release = None
    /\ gdf = None
    /\ parms = None
    /\ version = None
    /\ files = [n \in FileNames |-> None]
    /\ plotted = FALSE
    /\ calls = <<>>
    /\ runRegions = <<>>
    /\ received = FALSE
    /\ lastSaved = [n \in FileNames |-> None]
    /\ last = "idle"

Init == Fresh /\ track = {}
InitRun == Fresh /\ track = {"run"}
InitFlow == Fresh /\ track = {"flow"}

(* cell 2: SRwidgets = ipysliderule.widgets() *)
InitCell ==
    /\ Idle
    /\ SRwidgets' = DefaultWidgets
    /\ calls' = <<>>
    /\ last' = "idle"
    /\ UNCHANGED <<regions, asset, release, gdf, parms, version, files, plotted,
                   runRegions, received, lastSaved, track>>

(* cell 3: m = ipysliderule.leaflet(...) *)
MapCell ==
    /\ Idle
    /\ regions' = <<>>
    /\ calls' = <<>>
    /\ last' = "idle"
    /\ UNCHANGED <<SRwidgets, asset, release, gdf, parms, version, files, plotted,
                   runRegions, received, lastSaved, track>>

(* the user sets widget values *)
SetWidgets ==
    /\ Idle
    /\ \E l \in Lengths, f \in FileNames, fmt \in Formats :
          /\ SRwidgets' = [SRwidgets EXCEPT !.length = l, !.file = f, !.format = fmt]
          /\ SRwidgets' # SRwidgets
    /\ calls' = <<>>
    /\ last' = "idle"
    /\ UNCHANGED <<regions, asset, release, gdf, parms, version, files, plotted,
                   runRegions, received, lastSaved, track>>

(* the user draws a polygon on the map *)
DrawPolygon ==
    /\ Idle
    /\ Len(regions) < MaxRegions
    /\ \E p \in Polys : regions' = Append(regions, p)
    /\ calls' = <<>>
    /\ last' = "idle"
    /\ UNCHANGED <<SRwidgets, asset, release, gdf, parms, version, files, plotted,
                   runRegions, received, lastSaved, track>>

(* the record of the widgets' values for one polygon *)
WidgetParms(poly) ==
    [poly |-> poly,
     srt |-> SRwidgets.surface_type,
     len |-> SRwidgets.length,
     res |-> SRwidgets.step,
     cnf |-> SRwidgets.confidence,
     atl08_class |-> SRwidgets.land_class,
     maxi |-> SRwidgets.iteration,
     ats |-> SRwidgets.spread,
     cnt |-> SRwidgets.count,
     H_min_win |-> SRwidgets.window,
     sigma_r_max |-> SRwidgets.sigma]

(* Variant: the surface type is taken from the loop's position *)
BuildParms_Counted(poly) == [WidgetParms(poly) EXCEPT !.srt = Len(calls)]

(* Variant: the record parms is bound to is updated instead of rebuilt *)
BuildParms_Updated(poly) ==
    LET fresh == WidgetParms(poly)
        old == IF parms = None THEN <<>> ELSE Val(parms)
    IN [k \in DOMAIN fresh \cup DOMAIN old |->
           IF k \in DOMAIN fresh THEN fresh[k] ELSE old[k]]

(* parms = {...}: a new record in each iteration of the request loop *)
BuildParms(poly) == WidgetParms(poly)

(* Variant: the frame of an earlier run is kept *)
StartFrame_Stale == IF gdf = None THEN Some(EmptyFrame) ELSE gdf

(* gdf = icesat2.__emptyframe() *)
StartFrame == Some(EmptyFrame)

(* Variant: the regions are taken last to first *)
NextRegion_Reversed == regions[Len(regions) - Len(calls)]

(* for poly in m.regions: the region of the iteration that comes next *)
NextRegion == regions[Len(calls) + 1]

(* Variant: the new rows are put in front *)
Accumulate_Prepend(table, t) == t \o table

(* gdf.append(table) *)
Accumulate(table, t) == table \o t

(* request cell, up to the loop: asset, release and the empty frame *)
RequestCellStart ==
    /\ Idle
    /\ asset' = Some(SRwidgets.asset)
    /\ release' = Some(SRwidgets.release)
    /\ gdf' = StartFrame
    /\ calls' = <<>>
    /\ runRegions' = Keep("run", runRegions, <<>>)
    /\ last' = "request_running"
    /\ UNCHANGED <<SRwidgets, regions, parms, version, files, plotted, received,
                   lastSaved, track>>

(* one iteration of the loop whose request returns a table *)
RequestIterOk ==
    /\ last = "request_running"
    /\ Len(calls) < Len(regions)
    /\ LET poly == NextRegion
           p == BuildParms(poly)
       IN /\ parms' = Some(p)
          /\ runRegions' = Keep("run", runRegions, Append(runRegions, poly))
          /\ \E t \in Responses(p) :
                /\ calls' = Append(calls,
                       Atl06pCall(p, Val(asset), Val(release), Some(t)))
                /\ gdf' = Some(Accumulate(Val(gdf), t))
    /\ received' = Keep("flow", received, TRUE)
    /\ UNCHANGED <<SRwidgets, regions, asset, release, version, files, plotted,
                   lastSaved, last, track>>

(* one iteration of the loop whose request raises *)
RequestIterFail ==
    /\ last = "request_running"
    /\ Len(calls) < Len(regions)
    /\ LET poly == NextRegion
           p == BuildParms(poly)
       IN /\ parms' = Some(p)
          /\ runRegions' = Keep("run", runRegions, Append(runRegions, poly))
          /\ calls' = Append(calls, Atl06pCall(p, Val(asset), Val(release), None))
    /\ last' = "request_failed"
    /\ UNCHANGED <<SRwidgets, regions, asset, release, gdf, version, files, plotted,
                   received, lastSaved, track>>

(* the loop is exhausted: the cell completes *)
RequestCellEnd ==
    /\ last = "request_running"
    /\ Len(calls) = Len(regions)
    /\ last' = "request_ok"
    /\ UNCHANGED <<SRwidgets, regions, asset, release, gdf, parms, version, files,
                   plotted, calls, runRegions, received, lastSaved, track>>

(* plot cell: gdf must be bound (ax1.plot(gdf.geometry.x, ...)) and have its
   h_mean column (c=gdf.h_mean), which a frame without rows has not *)
PlotFails == gdf = None \/ Val(gdf) = EmptyFrame

(* Variant: only the polygon of the latest request is outlined *)
PlotRegions_Requested == IF parms = None THEN <<>> ELSE <<Val(parms).poly>>

(* for poly in m.regions: the regions outlined on the second figure *)
PlotRegions == regions

PlotCell ==
    /\ Idle
    /\ IF PlotFails
       THEN /\ calls' = <<>>
            /\ last' = "plot_failed"
            /\ UNCHANGED plotted
       ELSE /\ calls' = <<Figures(Val(gdf), PlotRegions)>>
            /\ plotted' = Keep("flow", plotted, TRUE)
            /\ last' = "plot_ok"
    /\ UNCHANGED <<SRwidgets, regions, asset, release, gdf, parms, version, files,
                   runRegions, received, lastSaved, track>>

(* parms['version'] = ...; parms['commit'] = ... *)
WithVersion(p, v) ==
    [k \in DOMAIN p \cup {"version", "commit"} |->
        IF k = "version" THEN v.icesat2.version
        ELSE IF k = "commit" THEN v.icesat2.commit
        ELSE p[k]]

(* save cell: icesat2.get_version() raises *)
SaveCellNoVersion ==
    /\ Idle
    /\ calls' = <<>>
    /\ last' = "save_failed"
    /\ UNCHANGED <<SRwidgets, regions, asset, release, gdf, parms, version, files,
                   plotted, runRegions, received, lastSaved, track>>

(* Variant: an unbound parms counts as an empty record *)
SaveParms_Default == IF parms = None THEN Some(<<>>) ELSE parms

(* parms['version'] = ...: the record the name parms is bound to, if any *)
SaveParms == parms

(* save cell: icesat2.get_version() answers *)
SaveCell ==
    /\ Idle
    /\ version' = Some(GetVersion)
    /\ IF SaveParms = None
       THEN \* NameError: parms
            /\ calls' = <<>>
            /\ last' = "save_failed"
            /\ UNCHANGED <<parms, files, lastSaved>>
       ELSE /\ parms' = Some(WithVersion(Val(SaveParms), GetVersion))
            /\ IF gdf = None
               THEN \* NameError: gdf
                    /\ calls' = <<>>
                    /\ last' = "save_failed"
                    /\ UNCHANGED <<files, lastSaved>>
               ELSE /\ calls' = <<ToFileCall(Val(gdf), SRwidgets.file, SRwidgets.format,
                                             Val(parms'), regions)>>
                    /\ \/ /\ files' = [files EXCEPT ![SRwidgets.file] =
                                Some(ToFile(Val(gdf), SRwidgets.format))]
                          /\ lastSaved' = [lastSaved EXCEPT ![SRwidgets.file] =
                                Some([gdf |-> Val(gdf), format |-> SRwidgets.format])]
                          /\ last' = "save_ok"
                       \/ \* io.to_file raises
                          /\ last' = "save_failed"
                          /\ UNCHANGED <<files, lastSaved>>
    /\ UNCHANGED <<SRwidgets, regions, asset, release, gdf, plotted, runRegions,
                   received, track>>

(* Variant: the table read is appended to gdf, as the request cell does *)
LoadedTable_Appended ==
    (IF gdf = None THEN <<>> ELSE Val(gdf)) \o FromFile(Val(files[SRwidgets.file]))

(* gdf = io.from_file(SRwidgets.file, format=SRwidgets.format, ...) *)
LoadedTable == FromFile(Val(files[SRwidgets.file]))

(* load cell *)
LoadCell ==
    /\ Idle
    /\ IF Readable(SRwidgets.file, SRwidgets.format)
       THEN /\ gdf' = Some(LoadedTable)
            /\ last' = "load_ok"
       ELSE /\ last' = "load_failed"
            /\ UNCHANGED gdf
    /\ calls' = <<>>
    /\ UNCHANGED <<SRwidgets, regions, asset, release, parms, version, files, plotted,
                   runRegions, received, lastSaved, track>>

Next ==
    \/ InitCell
    \/ MapCell
    \/ SetWidgets
    \/ DrawPolygon
    \/ RequestCellStart
    \/ RequestIterOk
    \/ RequestIterFail
    \/ RequestCellEnd
    \/ PlotCell
    \/ SaveCellNoVersion
    \/ SaveCell
    \/ LoadCell

Spec == Init /\ [][Next]_vars
SpecRun == InitRun /\ [][Next]_vars
SpecFlow == InitFlow /\ [][Next]_vars

----------------------------------------------------------------------------
(* Properties *)

ParmKeys ==
    {"poly", "srt", "len", "res", "cnf", "atl08_class", "maxi", "ats", "cnt",
     "H_min_win", "sigma_r_max"}

(* the request cell runs or was the latest cell to end *)
InRequest == last \in {"request_running", "request_ok", "request_failed"}

(* the rows received by the calls cs, in the order of the calls *)
RECURSIVE Received(_)
Received(cs) ==
    IF cs = <<>> THEN <<>>
    ELSE (IF Head(cs).result = None THEN <<>> ELSE Val(Head(cs).result))
         \o Received(Tail(cs))

(* the i-th call of the run is the request for the i-th region *)
InRegionOrder ==
    /\ Len(calls) <= Len(regions)
    /\ \A i \in 1..Len(calls) :
          /\ calls[i].fn = "atl06p"
          /\ calls[i].parms.poly = regions[i]

(* C1, as stated: a run of the request cell that has ended, however it ended,
   has issued one atl06p request per region of m.regions, in the list's
   order, the i-th with 'poly' the i-th region. *)
C1_OneRequestPerRegion ==
    last \in {"request_ok", "request_failed"} =>
        InRegionOrder /\ Len(calls) = Len(regions)

(* C1, amended: the requests of a run are those for a prefix of m.regions, in
   the list's order, the i-th with 'poly' the i-th region; a run that
   completes has issued one request per region (none for no region), and a
   run ended by a failing request has issued none after the failing one. *)
C1_OneRequestPerRegionServed ==
    InRequest =>
        /\ InRegionOrder
        /\ last = "request_ok" => Len(calls) = Len(regions)
        /\ \A i \in 1..Len(calls) :
              calls[i].result = None => (i = Len(calls) /\ last = "request_failed")

C1_Witness ==
    /\ last = "request_ok"
    /\ regions = <<"p2", "p1">>
    /\ Len(calls) = 2

(* C3: while the request cell runs, the widget values, the region list, asset
   and release do not change, and the requests of one run agree on asset,
   release and every parameter other than 'poly', which are the widgets'
   values. *)
C3_RunIsUniform ==
    /\ [](InRequest =>
            \A i \in 1..Len(calls) :
               /\ calls[i].asset = SRwidgets.asset
               /\ calls[i].version = SRwidgets.release
               /\ calls[i].parms.len = SRwidgets.length
               /\ \A j \in 1..Len(calls) :
                     /\ calls[i].asset = calls[j].asset
                     /\ calls[i].version = calls[j].version
                     /\ \A k \in ParmKeys \ {"poly"} :
                           calls[i].parms[k] = calls[j].parms[k])
    /\ [][last = "request_running" =>
            UNCHANGED <<SRwidgets, regions, asset, release>>]_vars

C3_Witness ==
    /\ last = "request_ok"
    /\ Len(calls) = 2
    /\ calls[1].parms.poly # calls[2].parms.poly
    /\ calls[2].parms.len = 20

C5_FailureStopsTheRun ==
    /\ [](last = "request_failed" =>
            LET k == Len(calls)
            IN /\ k >= 1
               /\ InRegionOrder
               /\ calls[k].result = None
               /\ \A i \in 1..(k - 1) : calls[i].result # None
               /\ gdf = Some(Received(SubSeq(calls, 1, k - 1)))
               /\ k = 1 => gdf = Some(EmptyFrame))
    /\ [][last = "request_failed" =>
            \A i \in 1..Len(calls') : calls'[i].fn # "atl06p"]_vars

C5_Witness ==
    /\ last = "request_failed"
    /\ Len(calls) = 1
    /\ Len(regions) = 2
    /\ gdf = Some(EmptyFrame)
    /\ lastSaved["out"] # None
    /\ Val(lastSaved["out"]).gdf # EmptyFrame

(* C6: after a run of the request cell that completes, gdf is the results of
   the regions' requests put together in region order, and nothing else. *)
C6_FrameIsTheResults ==
    last = "request_ok" =>
        /\ InRegionOrder
        /\ Len(calls) = Len(regions)
        /\ \A i \in 1..Len(calls) : calls[i].result # None
        /\ gdf = Some(Received(calls))

C6_Witness ==
    /\ last = "request_ok"
    /\ gdf = Some(<<Row("p2"), Row("p1")>>)
    /\ lastSaved["out"] # None
    /\ Val(lastSaved["out"]).gdf = <<Row("p1")>>

(* C7: every parameter record sent to atl06p has exactly the eleven keys of
   the request cell; the record handed to io.to_file has those and version
   and commit, and no other. *)
C7_ParameterKeys ==
    \A i \in 1..Len(calls) :
       /\ calls[i].fn = "atl06p" => DOMAIN calls[i].parms = ParmKeys
       /\ calls[i].fn = "to_file" =>
             DOMAIN calls[i].parameters = ParmKeys \cup {"version", "commit"}

C7_Witness ==
    /\ last = "request_ok"
    /\ Len(calls) = 2
    /\ version # None
    /\ files["out"] # None

(* C8, as stated: the regions handed to io.to_file are the regions submitted
   by the latest run of the request cell, and the stored 'poly' is one of
   them. *)
C8_SavedRegionsWereSubmitted ==
    \A i \in 1..Len(calls) :
       calls[i].fn = "to_file" =>
          /\ \A j \in 1..Len(calls[i].regions) :
                \E r \in 1..Len(runRegions) : runRegions[r] = calls[i].regions[j]
          /\ \A r \in 1..Len(runRegions) :
                \E j \in 1..Len(calls[i].regions) : calls[i].regions[j] = runRegions[r]
          /\ \E r \in 1..Len(runRegions) : runRegions[r] = calls[i].parameters.poly

(* C9: while parms is unbound the save cell calls no io.to_file and writes no
   file, and gdf, once bound, is the empty frame; parms becomes bound only in
   an iteration of the request loop, which a run with no region has not. *)
C9_NoParmsNoFile ==
    /\ [](parms = None =>
            /\ \A n \in FileNames : files[n] = None
            /\ last # "save_ok"
            /\ \A i \in 1..Len(calls) : calls[i].fn # "to_file"
            /\ gdf # None => gdf = Some(EmptyFrame))
    /\ [][(parms = None /\ parms' # None) =>
            (last = "request_running" /\ Len(calls) < Len(regions))]_vars

C9_Witness ==
    /\ last = "save_failed"
    /\ parms = None
    /\ version # None
    /\ gdf = Some(EmptyFrame)

(* C10: a run of the load cell leaves parms, asset, release, the widgets and
   the regions as they are and, when it succeeds, binds gdf to the table read
   from the selected file; the plot cell draws the points of gdf and one
   outline per region now on the map. *)
C10_LoadChangesOnlyGdf ==
    /\ [][last' \in {"load_ok", "load_failed"} =>
            /\ UNCHANGED <<SRwidgets, regions, asset, release, parms, version, files>>
            /\ last' = "load_ok" => gdf' = Some(FromFile(Val(files[SRwidgets.file])))
            /\ last' = "load_failed" => gdf' = gdf]_vars
    /\ [](last = "plot_ok" =>
            calls = <<[fn |-> "plot", points |-> Val(gdf), outlines |-> regions]>>)

C10_Witness ==
    /\ last = "load_ok"
    /\ Val(gdf) = <<Row("p1")>>
    /\ regions = <<"p2">>
    /\ Val(parms).poly = "p2"

(* C2, as stated: requests follow the assembly of their parameter record,
   the plots are rendered only after a result table has been received, and a
   table is written or read back only after the plots. *)
C2_FlowOrder ==
    /\ (InRequest /\ calls # <<>>) =>
          (parms # None /\ calls[Len(calls)].parms = Val(parms))
    /\ plotted => received
    /\ ((\E n \in FileNames : files[n] # None) \/ last = "load_ok") => plotted

(* C2, amended: requests follow the assembly of their parameter record, the
   plots are rendered only once gdf is bound, a table is written only once
   the request cell has assembled a parameter record and bound gdf, and it is
   read back only from a file that exists. *)
C2_FlowNeeds ==
    /\ (InRequest /\ calls # <<>>) =>
          (parms # None /\ calls[Len(calls)].parms = Val(parms))
    /\ plotted => gdf # None
    /\ (\E n \in FileNames : files[n] # None) =>
          (gdf # None /\ parms # None /\ ParmKeys \subseteq DOMAIN Val(parms))
    /\ last = "load_ok" => files[SRwidgets.file] # None

C2_Witness ==
    /\ received
    /\ plotted
    /\ last = "load_ok"

====
